---- MODULE Spec2Model ----
(***************************************************************************)
(* A model of the numerical engine and the playground component of         *)
(* src/src/social_metrics_playground_random_data_toggleable_lines.jsx.     *)
(*                                                                         *)
(* Number representations                                                  *)
(*   - a 32-bit word (the RNG state, a seed, a hash) is a pair <<hi, lo>>  *)
(*     of 16-bit limbs, the unsigned value being hi * 65536 + lo;          *)
(*   - a double is a fixed-point integer; each definition names its unit   *)
(*     (milli = 1/1000, and so on).  Math.log, Math.sqrt, Math.cos and     *)
(*     Math.sin are platform functions: they are tabulated on a grid.      *)
(***************************************************************************)
EXTENDS Integers, Sequences, FiniteSets, TLC

VARIABLES
    \* ---- the playground component (Spec) ----
    days,               \* useState(90)
    seed,               \* useState(42)
    splitC, splitT,     \* useState(0.5), in 1/10000
    testLen,            \* useState(14)
    enforceNoDecline,   \* useState(true)
    today,              \* new Date(), as a number of days
    edits,              \* number of input events handled so far
    render,             \* "ready", or the engine call the render is executing
    gen,                \* the locals of the running generateData call
    data,               \* useMemo(() => generateData(...), [days, seed])
    sm,                 \* the locals of the running simulateAB call
    sim,                \* useMemo(() => simulateAB(...), [...])
    spin,               \* parity of the iterations of a boxMuller loop that does not end
    \* ---- one RNG stream and the boxMuller calls on it (SpecRNG) ----
    origin,     \* which createPRNG call of the engine made the stream
    rs,         \* the closure variable s of createPRNG
    rv,         \* the value the last rand() returned: "none" or a word n, the value being n / 4294967295
    bpc,        \* "idle", or the loop of boxMuller being executed
    bu, bv,     \* boxMuller's u and v, as rv
    it,         \* parity of the number of loop iterations of the running boxMuller call
    nd,         \* number of rand() and boxMuller calls made on the stream
    \* ---- two calls of generateData with the same arguments (SpecCalls) ----
    calls,      \* the locals of the first and of the second call
    rets,       \* what each call returned, <<>> before it returns
    cpc,        \* the call being executed: 1, 2, or 3 when both returned
    \* ---- one call of a pure function: computeSampleSize (SpecSizer), ----
    \* ---- deriveDataDrivenLift (SpecLift), computeStats (SpecStats)   ----
    sargs,      \* the arguments of the call
    sret,       \* what the call returned, with called saying whether it was made
    \* ---- the DecisionRuleSizer component (SpecRule) ----
    props,          \* { data, selectedSuccessKeys, sumDAUWindow }
    sizer,          \* useState: rule, primary, alpha (ppm), power (ppm), mdePct (1/1000)
    recommendedN    \* useMemo: [nan, n]

appVars == <<days, seed, splitC, splitT, testLen, enforceNoDecline, today, edits,
             render, gen, data, sm, sim, spin>>

rngVars == <<origin, rs, rv, bpc, bu, bv, it, nd>>

callVars == <<calls, rets, cpc>>

sizerVars == <<sargs, sret>>

drsVars == <<props, sizer, recommendedN>>

vars == <<appVars, rngVars, callVars, sizerVars, drsVars>>

\* the values of the variables of the machines a specification does not run
AppIdle ==
    /\ days = 0 /\ seed = 0 /\ splitC = 0 /\ splitT = 0 /\ testLen = 0
    /\ enforceNoDecline = FALSE /\ today = 0 /\ edits = 0 /\ render = "off"
    /\ gen = <<>> /\ data = <<>> /\ sm = <<>> /\ sim = <<>> /\ spin = 0

RngIdle ==
    /\ origin = <<>> /\ rs = <<>> /\ rv = <<>> /\ bpc = "off"
    /\ bu = <<>> /\ bv = <<>> /\ it = 0 /\ nd = 0

CallsIdle == calls = <<>> /\ rets = <<>> /\ cpc = 0

SizerIdle == sargs = <<>> /\ sret = <<>>

DrsIdle == props = <<>> /\ sizer = <<>> /\ recommendedN = <<>>

(***************************************************************************)
(* 32-bit words                                                            *)
(***************************************************************************)
Limb == 2 ^ 16

Pow2(k) == 2 ^ k

W(n) == <<n \div Limb, n % Limb>>

ZeroWord == <<0, 0>>

AllOnes == <<Limb - 1, Limb - 1>>

\* a ^ b on two natural numbers, bit by bit
XorBits[a \in Nat, b \in Nat] ==
    IF a = 0 THEN b
    ELSE IF b = 0 THEN a
    ELSE ((a + b) % 2) + 2 * XorBits[a \div 2, b \div 2]

\* a ^ b on two words
XorW(a, b) == <<XorBits[a[1], b[1]], XorBits[a[2], b[2]]>>

\* (w << k) wrapped to 32 bits, 0 < k < 16
ShlW(w, k) ==
    << ((w[1] * Pow2(k)) % Limb) + (w[2] \div Pow2(16 - k)),
       (w[2] * Pow2(k)) % Limb >>

\* w >>> k, 16 <= k < 32
ShrW(w, k) == <<0, w[1] \div Pow2(k - 16)>>

\* (a + b) wrapped to 32 bits
AddW(a, b) ==
    LET lo == a[2] + b[2]
    IN  <<(a[1] + b[1] + (lo \div Limb)) % Limb, lo % Limb>>

\* (a - b) wrapped to 32 bits
SubW(a, b) ==
    LET lo == a[2] - b[2]
    IN  <<(a[1] - b[1] + (lo \div Limb)) % Limb, lo % Limb>>

\* a < b on two words, as unsigned numbers
LessW(a, b) == a[1] < b[1] \/ (a[1] = b[1] /\ a[2] < b[2])

(***************************************************************************)
(* createPRNG / rand / boxMuller                                           *)
(***************************************************************************)
\* let s = seed >>> 0
createPRNG(sd) == sd

\* s ^ (s << k)
XorShl(s, k) == XorW(s, ShlW(s, k))

\* s ^ (s >>> k)
XorShr(s, k) == XorW(s, ShrW(s, k))

\* s ^= s << 13; s ^= s >>> 17; s ^= s << 5: the new value of s, each of the
\* three assignments made once, on the value the one before left
xorshift32(s) ==
    CHOOSE s3 \in {XorShl(s2, 5) : s2 \in {XorShr(s1, 17) : s1 \in {XorShl(s0, 13) : s0 \in {s}}}} :
        TRUE

\* the denominator of rand()'s value: 4294967295
RandDenominator == AllOnes

\* return (s >>> 0) / 4294967295: the numerator, as a word
RandNumerator(s) == s

\* rand() === 0
IsZeroValue(n) == n = ZeroWord

\* floor(65535 * value) for value = n / 4294967295 (4294967295 = 65535 * 65537,
\* and n = hi * 65537 + (lo - hi))
Frac16(n) == IF n[2] >= n[1] THEN n[1] ELSE n[1] - 1

(***************************************************************************)
(* hashStr and the metric tables                                           *)
(***************************************************************************)
\* METRICS.map(m => m.key), in the order of the table
METRICS == <<"DAU", "WAU", "Sessions", "Logins", "Signups",
             "VideoViews", "Shares", "Comments", "Likes">>

SUCCESS_KEYS == <<"VideoViews", "Shares", "Comments", "Likes">>

GUARDRAIL_KEYS == <<"DAU", "WAU", "Sessions", "Logins", "Signups">>

Range(f) == {f[x] : x \in DOMAIN f}

\* s.charCodeAt(i) for the metric keys
CharCodes(key) ==
    CASE key = "DAU"        -> <<68, 65, 85>>
      [] key = "WAU"        -> <<87, 65, 85>>
      [] key = "Sessions"   -> <<83, 101, 115, 115, 105, 111, 110, 115>>
      [] key = "Logins"     -> <<76, 111, 103, 105, 110, 115>>
      [] key = "Signups"    -> <<83, 105, 103, 110, 117, 112, 115>>
      [] key = "VideoViews" -> <<86, 105, 100, 101, 111, 86, 105, 101, 119, 115>>
      [] key = "Shares"     -> <<83, 104, 97, 114, 101, 115>>
      [] key = "Comments"   -> <<67, 111, 109, 109, 101, 110, 116, 115>>
      [] key = "Likes"      -> <<76, 105, 107, 101, 115>>

\* h = ((h << 5) - h) + s.charCodeAt(i); h |= 0, for i = from .. s.length
RECURSIVE HashFrom(_, _, _)
HashFrom(h, cs, from) ==
    IF from > Len(cs) THEN h
    ELSE HashFrom(AddW(SubW(ShlW(h, 5), h), W(cs[from])), cs, from + 1)

\* return h >>> 0
hashStr(key) == HashFrom(ZeroWord, CharCodes(key), 1)

(***************************************************************************)
(* Platform functions, tabulated                                           *)
(***************************************************************************)
Max(a, b) == IF a >= b THEN a ELSE b

Min(a, b) == IF a <= b THEN a ELSE b

\* function clamp(x, lo, hi)
clamp(x, lo, hi) == Max(lo, Min(hi, x))

\* Math.round of num / den (den > 0): the nearest integer, a half rounding up
RoundDiv(num, den) == (2 * num + den) \div (2 * den)

\* Math.ceil of num / den (den > 0)
CeilDiv(num, den) == -((-num) \div den)

\* the position of the leading 1 bit of x > 0
RECURSIVE LeadBit(_)
LeadBit(x) == IF x <= 1 THEN 0 ELSE 1 + LeadBit(x \div 2)

\* Math.floor(Math.sqrt(x)), x >= 0, searched between lo and hi
RECURSIVE SqrtBetween(_, _, _)
SqrtBetween(x, lo, hi) ==
    IF lo >= hi THEN lo
    ELSE LET mid == (lo + hi + 1) \div 2
         IN  IF mid * mid <= x THEN SqrtBetween(x, mid, hi)
             ELSE SqrtBetween(x, lo, mid - 1)

Isqrt(x) == SqrtBetween(x, 0, 46340)

\* 1000 * ln(1 + (j + 1/2) / 8) for j = 0 .. 7
LnMantissa == <<61, 172, 272, 363, 446, 523, 595, 661>>

\* -1000 * ln(x * 2^sh / 2^32) for 0 < x < 2^16 with leading bit lb: x = 2^lb * (1 + f),
\* the fraction f read to three bits
NegLnAt(x, sh, lb) ==
    ((32 - (lb + sh)) * 693147) \div 1000 - LnMantissa[(((x - Pow2(lb)) * 8) \div Pow2(lb)) + 1]

NegLnOf(x, sh) == NegLnAt(x, sh, LeadBit(x))

\* -1000 * Math.log(n / 4294967295) for a word n > 0, read to its 16 leading bits
NegLnMilli(n) ==
    IF n[1] >= 16 THEN NegLnOf(n[1], 16)
    ELSE IF n[1] > 0 THEN NegLnOf(n[1] * 4096 + (n[2] \div 16), 4)
    ELSE NegLnOf(n[2], 0)

\* 1000 * cos(2 pi (j + 1/2) / 32) for j = 0 .. 31
CosTable ==
    <<995, 957, 882, 773, 634, 471, 290, 98, -98, -290, -471, -634, -773,
      -882, -957, -995, -995, -957, -882, -773, -634, -471, -290, -98, 98,
      290, 471, 634, 773, 882, 957, 995>>

\* 1000 * Math.cos(2.0 * Math.PI * v) for v = n / 4294967295
CosTwoPiMilli(n) == CosTable[((Frac16(n) * 32) \div Limb) + 1]

\* 1000 * Math.sin((2 * Math.PI * i) / 7)
SinWeekMilli(i) == <<0, 782, 975, 434, -434, -975, -782>>[(i % 7) + 1]

(***************************************************************************)
(* boxMuller                                                               *)
(***************************************************************************)
RECURSIVE DrawNonZero(_)
\* the test of while (x === 0) after the draw that took the stream from s to s1
DrawTest(s, s1) ==
    IF ~IsZeroValue(RandNumerator(s1)) THEN [div |-> FALSE, s |-> s1]
    ELSE IF s1 = s THEN [div |-> TRUE, s |-> s1]
    ELSE DrawNonZero(s1)

\* while (x === 0) x = rand(): the stream state when the loop ends; div when
\* the loop comes back to the state it started an iteration in (it never ends)
DrawNonZero(s) == DrawTest(s, xorshift32(s))

\* 1000 * Math.sqrt(-2.0 * Math.log(u)) * Math.cos(2.0 * Math.PI * v)
GaussMilli(u, v) == (Isqrt(2000 * NegLnMilli(u)) * CosTwoPiMilli(v)) \div 1000

\* the return of boxMuller, lu and lv being what the two loops left
BoxMullerValue(lu, lv) ==
    IF lv.div THEN [div |-> TRUE, s |-> lv.s, z |-> 0]
    ELSE [div |-> FALSE, s |-> lv.s, z |-> GaussMilli(RandNumerator(lu.s), RandNumerator(lv.s))]

\* boxMuller from its second loop on
BoxMullerV(lu) ==
    IF lu.div THEN [div |-> TRUE, s |-> lu.s, z |-> 0]
    ELSE BoxMullerValue(lu, DrawNonZero(lu.s))

\* boxMuller(rand) on the stream in state s: [div, s, z] with z in milli
boxMuller(s) == BoxMullerV(DrawNonZero(s))

(***************************************************************************)
(* generateData                                                            *)
(***************************************************************************)
\* 0x9e3779b9
GoldenWord == <<40503, 31161>>

\* rand() * k, floored, for the stream state s the draw left
Scaled(s, k) == (Frac16(RandNumerator(s)) * k) \div (Limb - 1)

\* the lengths of the months; a year is taken to have 365 days
MonthLengths == <<31, 28, 31, 30, 31, 30, 31, 31, 30, 31, 30, 31>>

RECURSIVE MonthDay(_, _)
MonthDay(m, d) ==
    IF d < MonthLengths[m] THEN <<m, d + 1>> ELSE MonthDay(m + 1, d - MonthLengths[m])

\* formatDateLabel(date): `${d.getMonth() + 1}/${d.getDate()}`, the date being
\* a number of days since a 1 January
formatDateLabel(date) == MonthDay(1, date % 365)

\* base + span * rand() + noise * boxMuller(rand) * (1 + varBoost), in milli, s1
\* being the stream after the rand() and bm the boxMuller call; vb is varBoost in 1/100
RateValue(s1, bm, base, span, noise, vb) ==
    [div |-> bm.div, s |-> bm.s,
     rate |-> base + Scaled(s1, span) + ((noise * bm.z * (100 + vb)) \div 100000)]

RateDraw(s1, base, span, noise, vb) == RateValue(s1, boxMuller(s1), base, span, noise, vb)

PerUserRate(s, base, span, noise, vb) == RateDraw(xorshift32(s), base, span, noise, vb)

\* Math.max(floor, Math.round(dau * Math.max(0, perUser))); dau in 1/100
SuccessCount(dau, perUser, floor) ==
    Max(floor, RoundDiv(dau * Max(0, perUser), 100000))

\* the locals of one iteration of the loop over the days, as the iteration
\* starts: the stream state, the dau of the day before (1/100), and the values
\* the statements of the body assign (dau, sessions, logins, signups in 1/100,
\* the per-user rates in milli)
DayLocals(st) ==
    [div |-> FALSE, s |-> st.s, dau |-> st.dau, drift |-> 0, sessions |-> 0, logins |-> 0,
     signups |-> 0, views |-> 0, shares |-> 0, comments |-> 0, likes |-> 0]

\* const drift = (rand() - 0.48) * (25 * (1 + varBoost)), s1 the stream after the draw
DriftValue(d, s1, vb) ==
    [d EXCEPT !.s = s1, !.drift = ((Scaled(s1, 10000) - 4800) * 25 * (100 + vb)) \div 10000]

Drift(d, vb) == DriftValue(d, xorshift32(d.s), vb)

\* dau = Math.max(200, dau + drift + season * (0.2 + rand() * (0.1 + varBoost)))
DauValue(d, s1, i, vb) ==
    [d EXCEPT !.s = s1,
              !.dau = Max(20000, d.dau + d.drift
                        + ((6 * SinWeekMilli(i) * (200 + Scaled(s1, 100 + 10 * vb))) \div 1000))]

Dau(d, i, vb) == DauValue(d, xorshift32(d.s), i, vb)

\* sessions = Math.max(300, dau * (sessionsPerUser + (rand() - 0.5) * (0.3 + varBoost)))
SessionsValue(d, s1, spu, vb) ==
    [d EXCEPT !.s = s1,
              !.sessions = Max(30000,
                  (d.dau * (spu + (((Scaled(s1, 10000) - 5000) * (300 + 10 * vb)) \div 10000)))
                      \div 1000)]

Sessions(d, spu, vb) == SessionsValue(d, xorshift32(d.s), spu, vb)

\* logins = Math.max(150, dau * (loginRate + (rand() - 0.5) * (0.08 + varBoost)))
LoginsValue(d, s1, lr, vb) ==
    [d EXCEPT !.s = s1,
              !.logins = Max(15000,
                  (d.dau * (lr + (((Scaled(s1, 10000) - 5000) * (80 + 10 * vb)) \div 10000)))
                      \div 1000)]

Logins(d, lr, vb) == LoginsValue(d, xorshift32(d.s), lr, vb)

\* signups = Math.max(20, (dau * (0.04 + (rand() * (0.02 + varBoost/2))))
\*                        + (rand() * 15 * (1 + varBoost))), s1 and s2 the stream
\* after the first and after the second draw
SignupsValue(d, s1, s2, vb) ==
    [d EXCEPT !.s = s2,
              !.signups = Max(2000,
                  ((d.dau * (400 + Scaled(s1, 200 + 50 * vb))) \div 10000)
                  + Scaled(s2, 15 * (100 + vb)))]

SignupsSecond(d, s1, vb) == SignupsValue(d, s1, xorshift32(s1), vb)

Signups(d, vb) == SignupsSecond(d, xorshift32(d.s), vb)

\* the per-user rate r assigned to the local f
SetRate(d, f, r) == [d EXCEPT !.div = d.div \/ r.div, !.s = r.s, ![f] = r.rate]

\* viewsPerUser, sharesPerUser, commentsPerUser, likesPerUser
Views(d, vb) == SetRate(d, "views", PerUserRate(d.s, 2200, 700, 200, vb))

Shares(d, vb) == SetRate(d, "shares", PerUserRate(d.s, 120, 60, 20, vb))

Comments(d, vb) == SetRate(d, "comments", PerUserRate(d.s, 180, 80, 25, vb))

Likes(d, vb) == SetRate(d, "likes", PerUserRate(d.s, 650, 120, 50, vb))

\* daily.push({ ... }), d being the locals at the end of the body
DayRow(st, d, i, start) ==
    IF d.div THEN [div |-> TRUE, s |-> st.s, dau |-> st.dau, rows |-> st.rows]
    ELSE [div |-> FALSE, s |-> d.s, dau |-> d.dau,
          rows |-> Append(st.rows,
              [date |-> start + i,
               DAU |-> RoundDiv(d.dau, 100),
               Sessions |-> RoundDiv(d.sessions, 100),
               Logins |-> RoundDiv(d.logins, 100),
               Signups |-> RoundDiv(d.signups, 100),
               VideoViews |-> SuccessCount(d.dau, d.views, 50),
               Shares |-> SuccessCount(d.dau, d.shares, 5),
               Comments |-> SuccessCount(d.dau, d.comments, 8),
               Likes |-> SuccessCount(d.dau, d.likes, 20)])]

\* one iteration of the loop over the days; st = [div, s, dau, rows], with
\* dau in 1/100, sessionsPerUser and loginRate in milli
GenDay(st, i, start, spu, lr, vb) ==
    DayRow(st,
           Likes(Comments(Shares(Views(Signups(Logins(Sessions(
               Dau(Drift(DayLocals(st), vb), i, vb), spu, vb), lr, vb), vb), vb), vb), vb), vb),
           i, start)

\* a variant of GenStart whose first dau depends on the day of the call
GenStart_Dated(ndays, seedW, vb, now) ==
    LET s1 == xorshift32(createPRNG(seedW))
    IN  [div |-> FALSE, s |-> xorshift32(xorshift32(s1)),
         dau |-> (1000 + Scaled(s1, 500) + (now % 7)) * 100, rows |-> <<>>,
         i |-> 0, days |-> ndays, seed |-> seedW, vb |-> vb,
         start |-> now - (ndays - 1),
         spu |-> 1600 + Scaled(xorshift32(s1), 700),
         lr |-> 650 + Scaled(xorshift32(xorshift32(s1)), 200)]

\* generateData up to its loop: the locals, with sessionsPerUser (spu) and
\* loginRate (lr) in milli, dau in 1/100, varBoost (vb) in 1/100
GenStart(ndays, seedW, vb, now) ==
    LET s0 == createPRNG(seedW)
        s1 == xorshift32(s0)
        s2 == xorshift32(s1)
        s3 == xorshift32(s2)
    IN  [div |-> FALSE, s |-> s3, dau |-> (1000 + Scaled(s1, 500)) * 100, rows |-> <<>>,
         i |-> 0, days |-> ndays, seed |-> seedW, vb |-> vb,
         start |-> now - (ndays - 1),
         spu |-> 1600 + Scaled(s2, 700), lr |-> 650 + Scaled(s3, 200)]

\* the locals of generateData after the iteration that gave d
GenAdvance(g, d) ==
    [g EXCEPT !.div = d.div, !.s = d.s, !.dau = d.dau, !.rows = d.rows,
              !.i = IF d.div THEN g.i ELSE g.i + 1]

\* the loop body for day g.i, and i++
GenStep(g) == GenAdvance(g, GenDay(g, g.i, g.start, g.spu, g.lr, g.vb))

\* daily.slice(Math.max(0, i - 6), i + 1).reduce((s, r) => s + r.DAU, 0)
RECURSIVE RollingSum(_, _, _)
RollingSum(rows, from, to) ==
    IF from > to THEN 0 ELSE rows[from].DAU + RollingSum(rows, from + 1, to)

\* generateData after its loop: the WAU pass and the labels; the rows returned
\* (rows are 1-indexed: row i + 1 is daily[i])
GenReturn(g) ==
    LET rand2 == xorshift32(createPRNG(XorW(g.seed, GoldenWord)))
        wauShrink == 550 + Scaled(rand2, 100)
    IN  [i \in 1..Len(g.rows) |->
            [WAU |-> RoundDiv(RollingSum(g.rows, Max(1, i - 6), i) * wauShrink, 1000),
             label |-> formatDateLabel(g.rows[i].date)] @@ g.rows[i]]

\* for (let i = 0; i < days; i++) { ... }
RECURSIVE GenLoop(_)
GenLoop(g) == IF g.i >= g.days \/ g.div THEN g ELSE GenLoop(GenStep(g))

\* what generateData returns when its loop ended with the locals g
GenResult(g) ==
    IF g.div THEN [div |-> TRUE, rows |-> <<>>] ELSE [div |-> FALSE, rows |-> GenReturn(g)]

\* generateData({ days, seed, varBoost }) called on the day `now`: [div, rows].
\* seed is a word, varBoost is in 1/100
generateData(ndays, seedW, varBoost, now) ==
    GenResult(GenLoop(GenStart(ndays, seedW, varBoost, now)))

(***************************************************************************)
(* simulateAB                                                              *)
(***************************************************************************)
\* data.reduce((s, d) => s + d[metricKey], 0) over rows from .. to
RECURSIVE SumField(_, _, _, _)
SumField(rows, key, from, to) ==
    IF from > to THEN 0 ELSE rows[from][key] + SumField(rows, key, from + 1, to)

\* basePerUser(metricKey, data), in milli
basePerUser(metricKey, rows) ==
    LET metric == SumField(rows, metricKey, 1, Len(rows))
        users  == SumField(rows, "DAU", 1, Len(rows))
    IN  IF users > 0 THEN (metric * 1000) \div users ELSE 0

\* basePerUserUntil(metricKey, data, endIndex), in milli
basePerUserUntil(metricKey, rows, endIndex) ==
    LET n == Min(Len(rows), Max(0, endIndex))
        metric == SumField(rows, metricKey, 1, n)
        users  == SumField(rows, "DAU", 1, n)
    IN  IF n = 0 THEN basePerUser(metricKey, rows)
        ELSE IF users > 0 THEN (metric * 1000) \div users
        ELSE basePerUser(metricKey, rows)

\* mixedSeed = (seed ^ 0x9e3779b9) ^ (sum | 0)
LiftSeed(metricKey, rows, sd) ==
    XorW(XorW(sd, GoldenWord), W(SumField(rows, metricKey, 1, Len(rows))))

\* clamp(0.10 + 0.10 * boxMuller(r), -0.5, 2.0), in milli
LiftValue(bm) == [div |-> bm.div, lift |-> clamp(100 + ((100 * bm.z) \div 1000), -500, 2000)]

\* deriveDataDrivenLift(metricKey, data, seed): [div, lift], lift in milli
deriveDataDrivenLift(metricKey, rows, sd) ==
    LiftValue(boxMuller(createPRNG(LiftSeed(metricKey, rows, sd))))

\* a variant of UsedLift that floors the lift of the success metrics instead
UsedLift_Success(key, lift, noDecline) ==
    IF noDecline /\ key \in Range(SUCCESS_KEYS) THEN Max(0, lift) ELSE lift

\* if (enforceNoDecline && GUARDRAIL_KEYS.includes(key)) lift = Math.max(0, lift)
UsedLift(key, lift, noDecline) ==
    IF noDecline /\ key \in Range(GUARDRAIL_KEYS) THEN Max(0, lift) ELSE lift

\* `${key}_Control` and `${key}_Experiment`
ControlField(key) ==
    CASE key = "DAU" -> "DAU_Control" [] key = "WAU" -> "WAU_Control"
      [] key = "Sessions" -> "Sessions_Control" [] key = "Logins" -> "Logins_Control"
      [] key = "Signups" -> "Signups_Control" [] key = "VideoViews" -> "VideoViews_Control"
      [] key = "Shares" -> "Shares_Control" [] key = "Comments" -> "Comments_Control"
      [] key = "Likes" -> "Likes_Control"

ExperimentField(key) ==
    CASE key = "DAU" -> "DAU_Experiment" [] key = "WAU" -> "WAU_Experiment"
      [] key = "Sessions" -> "Sessions_Experiment" [] key = "Logins" -> "Logins_Experiment"
      [] key = "Signups" -> "Signups_Experiment" [] key = "VideoViews" -> "VideoViews_Experiment"
      [] key = "Shares" -> "Shares_Experiment" [] key = "Comments" -> "Comments_Experiment"
      [] key = "Likes" -> "Likes_Experiment"

\* null, as a cohort value: no sample is negative
Null == -1

\* row[field] = value, the field being added when the row has none
SetField(row, field, value) == (field :> value) @@ row

\* out[i][`${key}_Control`] = c; out[i][`${key}_Experiment`] = e (row i + 1)
SetCohorts(out, i, key, c, e) ==
    [out EXCEPT ![i + 1] =
        SetField(SetField(out[i + 1], ControlField(key), c), ExperimentField(key), e)]

\* (seed ^ hashStr(key) ^ i) >>> 0
DaySeed(sd, key, i) == XorW(XorW(sd, hashStr(key)), W(i))

\* a variant of CohortSize that rounds to the nearest integer
CohortSize_Rounded(dauDay, split) == Max(0, RoundDiv(dauDay * clamp(split, 0, 10000), 10000))

\* Math.max(0, Math.floor(dauDay * clamp(split, 0, 1))), split in 1/10000
CohortSize(dauDay, split) == Max(0, (dauDay * clamp(split, 0, 10000)) \div 10000)

\* Math.max(0, Math.round(mean + sd * z)) with mean = mu * n and
\* sd = Math.sqrt(Math.max(1e-9, mu * (1 + 0.05) * n)); mu and z in milli
Sample(mu, n, z) ==
    LET sd10 == Isqrt((((mu * 105) \div 100) * n) \div 10)
    IN  Max(0, RoundDiv(mu * n * 10 + sd10 * z, 10000))

\* out[i][`${key}_Control`] = c; out[i][`${key}_Experiment`] = e;
\* sumC += c; sumE += e; NtotC += nC_day; NtotT += nT_day
Accumulate(acc, i, key, nC_day, nT_day, c, e) ==
    [div |-> FALSE, out |-> SetCohorts(acc.out, i, key, c, e),
     sumC |-> acc.sumC + c, sumE |-> acc.sumE + e,
     NtotC |-> acc.NtotC + nC_day, NtotT |-> acc.NtotT + nT_day]

\* sampleC and sampleE, zC and zE being the two boxMuller calls on r
SampleBoth(acc, i, key, muC_pre, lift, nC_day, nT_day, zC, zE) ==
    IF zE.div THEN [acc EXCEPT !.div = TRUE]
    ELSE Accumulate(acc, i, key, nC_day, nT_day,
                    Sample(muC_pre, nC_day, zC.z),
                    Sample((muC_pre * (1000 + lift)) \div 1000, nT_day, zE.z))

SampleDay(acc, i, key, muC_pre, lift, nC_day, nT_day, zC) ==
    IF zC.div THEN [acc EXCEPT !.div = TRUE]
    ELSE SampleBoth(acc, i, key, muC_pre, lift, nC_day, nT_day, zC, boxMuller(zC.s))

\* the iteration from the test of key === "DAU" on
CohortDay(acc, i, key, sd, muC_pre, lift, nC_day, nT_day) ==
    IF key = "DAU" THEN Accumulate(acc, i, key, nC_day, nT_day, nC_day, nT_day)
    ELSE SampleDay(acc, i, key, muC_pre, lift, nC_day, nT_day,
                   boxMuller(createPRNG(DaySeed(sd, key, i))))

\* one iteration of the loop over the test window;
\* acc = [div, out, sumC, sumE, NtotC, NtotT]
SimDay(acc, i, key, sd, sC, sT, muC_pre, lift) ==
    CohortDay(acc, i, key, sd, muC_pre, lift,
              CohortSize(acc.out[i + 1].DAU, sC), CohortSize(acc.out[i + 1].DAU, sT))

\* for (let i = startIndex; i < len; i++) { ... }
RECURSIVE SimDays(_, _, _, _, _, _, _, _, _)
SimDays(acc, i, len, key, sd, sC, sT, muC_pre, lift) ==
    IF i >= len \/ acc.div THEN acc
    ELSE SimDays(SimDay(acc, i, key, sd, sC, sT, muC_pre, lift),
                 i + 1, len, key, sd, sC, sT, muC_pre, lift)

\* a variant of NullCohorts that leaves the Experiment values at the baseline value
NullCohorts_ControlOnly(out, key) ==
    [i \in 1..Len(out) |->
        SetField(SetField(out[i], ControlField(key), Null), ExperimentField(key), out[i][key])]

\* for (let i = 0; i < len; i++) { out[i][`${key}_Control`] = null; ... }
NullCohorts(out, key) ==
    [i \in 1..Len(out) |->
        SetField(SetField(out[i], ControlField(key), Null), ExperimentField(key), Null)]

\* a variant of RealizedMean that divides by the population plus one
RealizedMean_PlusOne(sum, ntot) == IF ntot > 0 THEN (sum * 1000) \div (ntot + 1) ELSE 0

\* NtotC > 0 ? (sumC / NtotC) : 0, in milli
RealizedMean(sum, ntot) == IF ntot > 0 THEN (sum * 1000) \div ntot ELSE 0

\* aggregates[key] = { ... }, acc being what the loop over the window left;
\* st = [div, out, aggregates, locals], locals[key] keeping the callback's
\* muC_pre, the lift derived and the lift used
MetricEnd(st, key, startIndex, muC_pre, derived, lift, acc) ==
    IF derived.div \/ acc.div THEN [st EXCEPT !.div = TRUE]
    ELSE [div |-> FALSE, out |-> acc.out,
          aggregates |-> SetField(st.aggregates, key,
              [muC |-> RealizedMean(acc.sumC, acc.NtotC),
               muT |-> RealizedMean(acc.sumE, acc.NtotT),
               liftPct |-> IF RealizedMean(acc.sumC, acc.NtotC) > 0
                           THEN ((RealizedMean(acc.sumE, acc.NtotT) * 1000)
                                    \div RealizedMean(acc.sumC, acc.NtotC)) - 1000
                           ELSE 0,
               startIndex |-> startIndex,
               daysInTest |-> Max(1, Len(st.out) - startIndex),
               NtotC |-> acc.NtotC, NtotT |-> acc.NtotT]),
          locals |-> SetField(st.locals, key,
              [muC_pre |-> muC_pre, derived |-> derived.lift, lift |-> lift])]

\* the callback from the two loops on, the lift being the one used
MetricLoops(st, key, sd, sC, sT, startIndex, muC_pre, derived, lift) ==
    MetricEnd(st, key, startIndex, muC_pre, derived, lift,
              SimDays([div |-> derived.div, out |-> NullCohorts(st.out, key),
                       sumC |-> 0, sumE |-> 0, NtotC |-> 0, NtotT |-> 0],
                      startIndex, Len(st.out), key, sd, sC, sT, muC_pre, lift))

\* the callback from the no-decline test on
MetricLift(st, key, sd, sC, sT, startIndex, noDecline, muC_pre, derived) ==
    MetricLoops(st, key, sd, sC, sT, startIndex, muC_pre, derived,
                UsedLift(key, derived.lift, noDecline))

\* the body of METRICS.forEach for one metric
SimMetric(st, key, rows, sd, sC, sT, startIndex, noDecline) ==
    MetricLift(st, key, sd, sC, sT, startIndex, noDecline,
               basePerUserUntil(key, rows, startIndex),
               deriveDataDrivenLift(key, rows, sd))

\* METRICS.forEach(m => { ... }), from the k-th metric on
RECURSIVE SimMetrics(_, _, _, _, _, _, _, _)
SimMetrics(st, k, rows, sd, sC, sT, startIndex, noDecline) ==
    IF k > Len(METRICS) \/ st.div THEN st
    ELSE SimMetrics(
            SimMetric(st, METRICS[k], rows, sd, sC, sT, startIndex, noDecline),
            k + 1, rows, sd, sC, sT, startIndex, noDecline)

\* return { simData: out, aggregates, startIndex }, st being what forEach left
SimResult(st, startIndex) ==
    [div |-> st.div, simData |-> st.out, aggregates |-> st.aggregates,
     startIndex |-> startIndex, locals |-> st.locals]

\* simulateAB from METRICS.forEach on
SimFrom(rows, sd, sC, sT, startIndex, noDecline) ==
    SimResult(SimMetrics([div |-> FALSE, out |-> rows, aggregates |-> <<>>, locals |-> <<>>],
                         1, rows, sd, sC, sT, startIndex, noDecline),
              startIndex)

\* simulateAB(data, { seed, splitC, splitT, testLen, enforceNoDecline }):
\* [div, simData, aggregates, startIndex, locals]; seed is a word, the splits are in
\* 1/10000, the means of the aggregates in milli
simulateAB(rows, sd, sC, sT, tl, noDecline) ==
    SimFrom(rows, sd, sC, sT, Max(0, Len(rows) - tl), noDecline)

(***************************************************************************)
(* The playground component.  A render runs the engine calls whose         *)
(* dependencies changed, synchronously: generateData one loop iteration a  *)
(* step, then simulateAB one metric a step.  Input events are handled      *)
(* between renders.  A memoized value that is being recomputed is empty    *)
(* until its call returns.                                                 *)
(***************************************************************************)
MaxEdits == 2

Today0 == 300

\* what is typed in the Days field (0 also stands for an empty field)
DayInputs == {-1, 0, 3}

\* values of Math.floor(Math.random() * 1e9); 85707 is hashStr("WAU")
SeedChoices == {0, 85707}

\* what is typed in the two split fields, in percent
SplitCInputs == {30, 150}

SplitTInputs == {0, 150}

\* what is typed in the test duration field
TestLenInputs == {0, 2}

\* the recommended n a sizer passes to applyToSplit: <<Number.isFinite(n), n>>
ApplyInputs == {<<FALSE, 0>>, <<TRUE, 0>>, <<TRUE, 2000>>}

\* varBoost: 0.05, in 1/100
VarBoost == 5

\* simulateAB up to METRICS.forEach: the locals
SimStart(rows, tl) ==
    [div |-> FALSE, k |-> 1, out |-> rows, aggregates |-> <<>>, locals |-> <<>>,
     startIndex |-> Max(0, Len(rows) - tl)]

\* the locals of simulateAB after the callback that gave st
SimAdvance(m, st) ==
    [div |-> st.div, k |-> IF st.div THEN m.k ELSE m.k + 1, out |-> st.out,
     aggregates |-> st.aggregates, locals |-> st.locals, startIndex |-> m.startIndex]

\* the callback of METRICS.forEach for the metric m.k, and the next metric
SimStep(m, rows, sd, sC, sT, noDecline) ==
    SimAdvance(m, SimMetric(m, METRICS[m.k], rows, sd, sC, sT, m.startIndex, noDecline))

\* return { simData: out, aggregates, startIndex } (and the callbacks' locals)
SimReturn(m) ==
    [simData |-> m.out, aggregates |-> m.aggregates, startIndex |-> m.startIndex,
     locals |-> m.locals]

\* the test duration the component passes: clamp(testLen, 1, data.length)
PassedTestLen(tl, rows) == clamp(tl, 1, Len(rows))

Init ==
    /\ days = 90
    /\ seed = 42
    /\ splitC = 5000
    /\ splitT = 5000
    /\ testLen = 14
    /\ enforceNoDecline = TRUE
    /\ today = Today0
    /\ edits = 0
    /\ render = "generateData"
    /\ gen = GenStart(90, W(42), VarBoost, Today0)
    /\ data = <<>>
    /\ sm = <<>>
    /\ sim = <<>>
    /\ spin = 0
    /\ RngIdle /\ CallsIdle /\ SizerIdle /\ DrsIdle

\* one iteration of the loop of generateData
GenerateDay ==
    /\ render = "generateData"
    /\ gen.i < gen.days
    /\ LET g == GenStep(gen) IN ~g.div /\ gen' = g
    /\ UNCHANGED <<days, seed, splitC, splitT, testLen, enforceNoDecline, today, edits,
                   render, data, sm, sim, spin>>
    /\ UNCHANGED <<rngVars, callVars, sizerVars, drsVars>>

\* generateData returns; the render goes on with simulateAB
GenerateReturn ==
    /\ render = "generateData"
    /\ gen.i >= gen.days
    /\ data' = GenReturn(gen)
    /\ gen' = <<>>
    /\ render' = "simulateAB"
    /\ sm' = SimStart(data', PassedTestLen(testLen, data'))
    /\ UNCHANGED <<days, seed, splitC, splitT, testLen, enforceNoDecline, today, edits,
                   sim, spin>>
    /\ UNCHANGED <<rngVars, callVars, sizerVars, drsVars>>

\* the callback of METRICS.forEach, for one metric
SimulateMetric ==
    /\ render = "simulateAB"
    /\ sm.k <= Len(METRICS)
    /\ LET m == SimStep(sm, data, W(seed), splitC, splitT, enforceNoDecline)
       IN  ~m.div /\ sm' = m
    /\ UNCHANGED <<days, seed, splitC, splitT, testLen, enforceNoDecline, today, edits,
                   render, gen, data, sim, spin>>
    /\ UNCHANGED <<rngVars, callVars, sizerVars, drsVars>>

\* simulateAB returns; the render is done
SimulateReturn ==
    /\ render = "simulateAB"
    /\ sm.k > Len(METRICS)
    /\ sim' = SimReturn(sm)
    /\ sm' = <<>>
    /\ render' = "ready"
    /\ UNCHANGED <<days, seed, splitC, splitT, testLen, enforceNoDecline, today, edits,
                   gen, data, spin>>
    /\ UNCHANGED <<rngVars, callVars, sizerVars, drsVars>>

\* the engine call of the render is in a boxMuller loop that does not end
Diverges ==
    \/ /\ render = "generateData"
       /\ gen.i < gen.days
       /\ GenStep(gen).div
    \/ /\ render = "simulateAB"
       /\ sm.k <= Len(METRICS)
       /\ SimStep(sm, data, W(seed), splitC, splitT, enforceNoDecline).div

\* one more iteration of while (u === 0) u = rand() on a stream whose state is 0
BoxMullerSpin ==
    /\ Diverges
    /\ spin' = 1 - spin
    /\ UNCHANGED <<days, seed, splitC, splitT, testLen, enforceNoDecline, today, edits,
                   render, gen, data, sm, sim>>
    /\ UNCHANGED <<rngVars, callVars, sizerVars, drsVars>>

\* the state setters of one input event, and the render they cause: generateData
\* when days or seed changed, simulateAB when one of its other dependencies did
SetState(d, s, c, t, tl, f) ==
    /\ render = "ready"
    /\ edits < MaxEdits
    /\ edits' = edits + 1
    /\ days' = d /\ seed' = s /\ splitC' = c /\ splitT' = t /\ testLen' = tl
    /\ enforceNoDecline' = f
    /\ IF d # days \/ s # seed
       THEN /\ render' = "generateData"
            /\ gen' = GenStart(d, W(s), VarBoost, today)
            /\ data' = <<>> /\ sm' = <<>> /\ sim' = <<>>
       ELSE IF c # splitC \/ t # splitT \/ tl # testLen \/ f # enforceNoDecline
       THEN /\ render' = "simulateAB"
            /\ sm' = SimStart(data, PassedTestLen(tl, data))
            /\ sim' = <<>>
            /\ UNCHANGED <<gen, data>>
       ELSE UNCHANGED <<render, gen, data, sm, sim>>
    /\ UNCHANGED <<today, spin>>
    /\ UNCHANGED <<rngVars, callVars, sizerVars, drsVars>>

\* setSplitPair(c, t): the pair of splits it sets, all in 1/10000
setSplitPair(c, t) ==
    LET c0 == clamp(c, 0, 10000)
        t0 == clamp(t, 0, 10000)
        tot == c0 + t0
    IN  IF tot > 9800 THEN <<(c0 * 9800) \div tot, (t0 * 9800) \div tot>>
        ELSE <<c0, t0>>

\* onChange of the Days field: setDays(Number(e.target.value) || 7)
SetDays(v) ==
    SetState(IF v = 0 THEN 7 ELSE v, seed, splitC, splitT, testLen, enforceNoDecline)

\* randomize(): setSeed(Math.floor(Math.random() * 1e9))
Randomize(r) ==
    SetState(days, r, splitC, splitT, testLen, enforceNoDecline)

\* onChange of the control split field: setSplitPair(Number(e.target.value)/100, splitT)
EditSplitC(pct) ==
    LET pair == setSplitPair(pct * 100, splitT)
    IN  SetState(days, seed, pair[1], pair[2], testLen, enforceNoDecline)

\* onChange of the experiment split field: setSplitPair(splitC, Number(e.target.value)/100)
EditSplitT(pct) ==
    LET pair == setSplitPair(splitC, pct * 100)
    IN  SetState(days, seed, pair[1], pair[2], testLen, enforceNoDecline)

\* onChange of the test duration field: setTestLen(clamp(Number(e.target.value)||1, 1, days))
SetTestLen(v) ==
    SetState(days, seed, splitC, splitT, clamp(IF v = 0 THEN 1 ELSE v, 1, days),
             enforceNoDecline)

\* onChange of the checkbox: setEnforceNoDecline(e.target.checked)
SetEnforceNoDecline(b) ==
    SetState(days, seed, splitC, splitT, testLen, b)

\* simData.slice(startIndex).reduce((s,r)=> s + (r.DAU || 0), 0)
sumDAUWindow == SumField(sim.simData, "DAU", sim.startIndex + 1, Len(sim.simData))

\* clamp(n / sumDAUWindow, 0, 0.98) in 1/10000, for 0 <= n and 0 < sum
ApplyFrac(n, sum) ==
    IF n >= sum THEN 9800
    ELSE clamp((((n * 100) \div sum) * 100) + ((((n * 100) % sum) * 100) \div sum), 0, 9800)

\* applyToSplit(n): if (Number.isFinite(n) && sumDAUWindow>0) { ... setSplitPair(frac, frac) }
ApplyToSplit(finite, n) ==
    /\ render = "ready"
    /\ IF finite /\ sumDAUWindow > 0
       THEN LET pair == setSplitPair(ApplyFrac(n, sumDAUWindow), ApplyFrac(n, sumDAUWindow))
            IN  SetState(days, seed, pair[1], pair[2], testLen, enforceNoDecline)
       ELSE SetState(days, seed, splitC, splitT, testLen, enforceNoDecline)

Next ==
    \/ GenerateDay
    \/ GenerateReturn
    \/ SimulateMetric
    \/ SimulateReturn
    \/ BoxMullerSpin
    \/ \E v \in DayInputs : SetDays(v)
    \/ \E r \in SeedChoices : Randomize(r)
    \/ \E pct \in SplitCInputs : EditSplitC(pct)
    \/ \E pct \in SplitTInputs : EditSplitT(pct)
    \/ \E v \in TestLenInputs : SetTestLen(v)
    \/ \E b \in BOOLEAN : SetEnforceNoDecline(b)
    \/ \E n \in ApplyInputs : ApplyToSplit(n[1], n[2])

Spec == Init /\ [][Next]_vars

Ready == render = "ready"

\* the rows of the test window of the simulation the page shows
Window == (sim.startIndex + 1)..Len(sim.simData)

\* the fields of a baseline record
BaseFields == {"date", "label"} \cup Range(METRICS)

\* C5: with the no-decline flag set, the lift simulateAB used for every
\* guardrail metric is >= 0, and so on every day of the window the experiment
\* mean muC_pre * (1 + lift) * nT is not below muC_pre * nT
C5_NoDeclineLift ==
    (Ready /\ enforceNoDecline) =>
        \A key \in Range(GUARDRAIL_KEYS) :
            LET l == sim.locals[key]
            IN  /\ l.lift >= 0
                /\ \A i \in Window :
                      ((l.muC_pre * (1000 + l.lift)) \div 1000) * sim.simData[i].DAU_Experiment
                          >= l.muC_pre * sim.simData[i].DAU_Experiment

\* a run with the flag set in which the lift derived for a guardrail metric
\* was negative, over a window with experiment traffic
C5_Witness ==
    /\ Ready /\ enforceNoDecline
    /\ \E key \in Range(GUARDRAIL_KEYS) :
          /\ sim.locals[key].derived < 0
          /\ sim.locals[key].muC_pre > 0
    /\ \E i \in Window : sim.simData[i].DAU_Experiment > 0

\* C6: on every day of the window DAU_Control = floor(DAU * clamp(splitC, 0, 1))
\* and DAU_Experiment = floor(DAU * clamp(splitT, 0, 1)), and these values are
\* the cohort sizes summed into NtotC and NtotT of every metric
C6_DauCohorts ==
    Ready =>
        /\ \A i \in Window :
              /\ sim.simData[i].DAU_Control
                    = (sim.simData[i].DAU * Max(0, Min(10000, splitC))) \div 10000
              /\ sim.simData[i].DAU_Experiment
                    = (sim.simData[i].DAU * Max(0, Min(10000, splitT))) \div 10000
        /\ \A key \in Range(METRICS) :
              /\ sim.aggregates[key].NtotC
                    = SumField(sim.simData, "DAU_Control", sim.startIndex + 1, Len(sim.simData))
              /\ sim.aggregates[key].NtotT
                    = SumField(sim.simData, "DAU_Experiment", sim.startIndex + 1, Len(sim.simData))

\* a run over several days with unequal splits that do not divide the DAU evenly
C6_Witness ==
    /\ Ready
    /\ splitC # splitT /\ splitC > 0 /\ splitT > 0
    /\ Cardinality(Window) >= 2
    /\ \E i \in Window : (sim.simData[i].DAU * splitC) % 10000 # 0

\* C7: after simulateAB, for every metric, the records before startIndex =
\* max(0, len - testLen) have null Control and Experiment values, the records
\* from startIndex on have non-null, non-negative integer values, and the
\* baseline values of every record are unchanged
C7_WindowNulling ==
    Ready =>
        /\ sim.startIndex = Max(0, Len(data) - PassedTestLen(testLen, data))
        /\ Len(sim.simData) = Len(data)
        /\ \A i \in 1..Len(data) :
              /\ \A f \in BaseFields : sim.simData[i][f] = data[i][f]
              /\ \A key \in Range(METRICS) :
                    LET c == sim.simData[i][ControlField(key)]
                        e == sim.simData[i][ExperimentField(key)]
                    IN  IF i <= sim.startIndex
                        THEN c = Null /\ e = Null
                        ELSE c # Null /\ e # Null /\ c \in Nat /\ e \in Nat

\* a run whose window is a proper, non-empty part of the series
C7_Witness ==
    /\ Ready
    /\ sim.startIndex > 0
    /\ sim.startIndex < Len(sim.simData)
    /\ \E i \in Window : sim.simData[i].Likes_Control > 0

\* C8: for every metric, when the control cohort sizes of the window sum to a
\* positive number, muC is the sum of the metric's Control samples over the
\* window divided by that number, likewise muT with the Experiment samples
\* and cohort sizes; NtotC and NtotT are the same for every metric
C8_AggregateConsistency ==
    Ready =>
        \A key \in Range(METRICS) :
            LET a  == sim.aggregates[key]
                lo == sim.startIndex + 1
                hi == Len(sim.simData)
                nC == SumField(sim.simData, "DAU_Control", lo, hi)
                nT == SumField(sim.simData, "DAU_Experiment", lo, hi)
            IN  /\ nC > 0 =>
                     a.muC = (SumField(sim.simData, ControlField(key), lo, hi) * 1000) \div nC
                /\ nT > 0 =>
                     a.muT = (SumField(sim.simData, ExperimentField(key), lo, hi) * 1000) \div nT
                /\ a.NtotC = sim.aggregates["DAU"].NtotC
                /\ a.NtotT = sim.aggregates["DAU"].NtotT

\* a run over several days with traffic in both arms and distinct realized means
C8_Witness ==
    /\ Ready
    /\ Cardinality(Window) >= 2
    /\ sim.aggregates["Likes"].NtotC > 0
    /\ sim.aggregates["Likes"].NtotT > 0
    /\ sim.aggregates["Likes"].muC > 0
    /\ sim.aggregates["Likes"].muT # sim.aggregates["Likes"].muC

\* C9: in every reachable state of the playground splitC and splitT lie in
\* [0, 1] and splitC + splitT <= 0.98
C9_SplitsCapped ==
    /\ splitC \in 0..10000
    /\ splitT \in 0..10000
    /\ splitC + splitT <= 9800

(***************************************************************************)
(* One RNG stream of the engine, draw by draw, and boxMuller loop          *)
(* iteration by loop iteration.                                            *)
(***************************************************************************)
MaxDraws == 3

MaxDayIndex == 1

LiftDays == 2

\* user seeds: 167168090 is 0x5e6cfce7 ^ hashStr("Sessions")
RngSeeds == {0, 42, 85707, 167168090}

\* the streams generateData and simulateAB create for a user seed: the
\* createPRNG call, and the state it leaves in s
EngineStreams ==
    {[origin |-> [kind |-> "baseline", seed |-> sd, key |-> "", day |-> 0],
      s |-> createPRNG(W(sd))] : sd \in RngSeeds}
    \cup
    {[origin |-> [kind |-> "wauShrink", seed |-> sd, key |-> "", day |-> 0],
      s |-> createPRNG(XorW(W(sd), GoldenWord))] : sd \in RngSeeds}
    \cup
    {[origin |-> [kind |-> "lift", seed |-> x[1], key |-> x[2], day |-> 0],
      s |-> createPRNG(LiftSeed(x[2],
                generateData(LiftDays, W(x[1]), VarBoost, Today0).rows, W(x[1])))] :
        x \in {y \in RngSeeds \X Range(METRICS) :
                  ~generateData(LiftDays, W(y[1]), VarBoost, Today0).div}}
    \cup
    {[origin |-> [kind |-> "day", seed |-> x[1], key |-> x[2], day |-> x[3]],
      s |-> createPRNG(DaySeed(W(x[1]), x[2], x[3]))] :
        x \in RngSeeds \X Range(METRICS) \X (0..MaxDayIndex)}

InitRNG ==
    /\ \E st \in EngineStreams : origin = st.origin /\ rs = st.s
    /\ rv = <<>>
    /\ bpc = "idle"
    /\ bu = <<>> /\ bv = <<>>
    /\ it = 0
    /\ nd = 0
    /\ AppIdle /\ CallsIdle /\ SizerIdle /\ DrsIdle

\* rand(), called by the engine directly
Rand ==
    /\ bpc = "idle"
    /\ nd < MaxDraws
    /\ rs' = xorshift32(rs)
    /\ rv' = RandNumerator(rs')
    /\ nd' = nd + 1
    /\ UNCHANGED <<origin, bpc, bu, bv, it>>
    /\ UNCHANGED <<appVars, callVars, sizerVars, drsVars>>

\* boxMuller(rand) is called: let u = 0, v = 0
BoxMullerCall ==
    /\ bpc = "idle"
    /\ nd < MaxDraws
    /\ bpc' = "whileU"
    /\ bu' = ZeroWord /\ bv' = ZeroWord
    /\ it' = 0
    /\ nd' = nd + 1
    /\ UNCHANGED <<origin, rs, rv>>
    /\ UNCHANGED <<appVars, callVars, sizerVars, drsVars>>

\* while (u === 0) u = rand(): one iteration
DrawU ==
    /\ bpc = "whileU"
    /\ IsZeroValue(bu)
    /\ rs' = xorshift32(rs)
    /\ rv' = RandNumerator(rs')
    /\ bu' = rv'
    /\ it' = 1 - it
    /\ UNCHANGED <<origin, bpc, bv, nd>>
    /\ UNCHANGED <<appVars, callVars, sizerVars, drsVars>>

\* while (u === 0): the loop ends
ExitU ==
    /\ bpc = "whileU"
    /\ ~IsZeroValue(bu)
    /\ bpc' = "whileV"
    /\ UNCHANGED <<origin, rs, rv, bu, bv, it, nd>>
    /\ UNCHANGED <<appVars, callVars, sizerVars, drsVars>>

\* while (v === 0) v = rand(): one iteration
DrawV ==
    /\ bpc = "whileV"
    /\ IsZeroValue(bv)
    /\ rs' = xorshift32(rs)
    /\ rv' = RandNumerator(rs')
    /\ bv' = rv'
    /\ it' = 1 - it
    /\ UNCHANGED <<origin, bpc, bu, nd>>
    /\ UNCHANGED <<appVars, callVars, sizerVars, drsVars>>

\* while (v === 0): the loop ends, and boxMuller returns
BoxMullerReturn ==
    /\ bpc = "whileV"
    /\ ~IsZeroValue(bv)
    /\ bpc' = "idle"
    /\ bu' = <<>> /\ bv' = <<>>
    /\ it' = 0
    /\ UNCHANGED <<origin, rs, rv, nd>>
    /\ UNCHANGED <<appVars, callVars, sizerVars, drsVars>>

NextRNG == Rand \/ BoxMullerCall \/ DrawU \/ ExitU \/ DrawV \/ BoxMullerReturn

SpecRNG == InitRNG /\ [][NextRNG]_vars

(***************************************************************************)
(* Two calls of generateData with the same arguments, the second made      *)
(* after the first returned, the same day or later.                        *)
(***************************************************************************)
MaxCallDays == 5

MaxElapsed == 1

CallSeeds == {0, 7, 42, 85707}

InitCalls ==
    /\ \E d \in 1..MaxCallDays, sd \in CallSeeds :
          calls = <<GenStart(d, W(sd), VarBoost, Today0)>>
    /\ rets = <<>>
    /\ cpc = 1
    /\ AppIdle /\ RngIdle /\ SizerIdle /\ DrsIdle

\* one iteration of the loop of the running call
CallDay ==
    /\ cpc \in {1, 2}
    /\ calls[cpc].i < calls[cpc].days
    /\ LET g == GenStep(calls[cpc]) IN ~g.div /\ calls' = [calls EXCEPT ![cpc] = g]
    /\ UNCHANGED <<rets, cpc>>
    /\ UNCHANGED <<appVars, rngVars, sizerVars, drsVars>>

\* the loop of the running call is in a boxMuller loop that does not end
CallSpin ==
    /\ cpc \in {1, 2}
    /\ calls[cpc].i < calls[cpc].days
    /\ GenStep(calls[cpc]).div
    /\ calls' = [calls EXCEPT ![cpc].div = ~calls[cpc].div]
    /\ UNCHANGED <<rets, cpc>>
    /\ UNCHANGED <<appVars, rngVars, sizerVars, drsVars>>

\* the first call returns; the second is made, `later` days after the first
FirstReturn(later) ==
    /\ cpc = 1
    /\ calls[1].i >= calls[1].days
    /\ rets' = <<GenReturn(calls[1])>>
    /\ calls' = Append(calls, GenStart(calls[1].days, calls[1].seed, calls[1].vb,
                                       calls[1].start + (calls[1].days - 1) + later))
    /\ cpc' = 2
    /\ UNCHANGED <<appVars, rngVars, sizerVars, drsVars>>

\* the second call returns
SecondReturn ==
    /\ cpc = 2
    /\ calls[2].i >= calls[2].days
    /\ rets' = Append(rets, GenReturn(calls[2]))
    /\ cpc' = 3
    /\ UNCHANGED calls
    /\ UNCHANGED <<appVars, rngVars, sizerVars, drsVars>>

NextCalls ==
    \/ CallDay
    \/ CallSpin
    \/ \E later \in 0..MaxElapsed : FirstReturn(later)
    \/ SecondReturn

SpecCalls == InitCalls /\ [][NextCalls]_vars

(***************************************************************************)
(* invNorm and computeSampleSize.  Probabilities are in 1/1000000 (ppm),   *)
(* quantiles, sigma2 and mdeAbs in milli, the polynomials in micro.        *)
(***************************************************************************)
\* a * b for a and b >= 0 in micro, in micro
MulMicro(a, b) ==
    ((a \div 1000) * (b \div 1000))
    + ((((a \div 1000) * (b % 1000)) + ((a % 1000) * (b \div 1000))
        + (((a % 1000) * (b % 1000)) \div 1000)) \div 1000)

\* a * q for a in micro and q in milli, in micro
MulMilli(a, q) == ((a \div 1000) * q) + (((a % 1000) * q) \div 1000)

\* (((cs[1]*x + cs[2])*x + ...)*x + cs[n]), from the k-th coefficient on; x in micro
RECURSIVE PolyMicro(_, _, _, _)
PolyMicro(cs, x, k, acc) ==
    IF k > Len(cs) THEN acc ELSE PolyMicro(cs, x, k + 1, MulMicro(acc, x) + cs[k])

\* the same, x in milli
RECURSIVE PolyMilli(_, _, _, _)
PolyMilli(cs, x, k, acc) ==
    IF k > Len(cs) THEN acc ELSE PolyMilli(cs, x, k + 1, MulMilli(acc, x) + cs[k])

\* the coefficients a, b (with the final + 1), c, d (with the final + 1), in micro
CoefA == <<-39696830, 220946098, -275928510, 138357752, -30664798, 2506628>>

CoefB == <<-54476099, 161585837, -155698980, 66801312, -13280682, 1000000>>

CoefC == <<-7785, -322396, -2400758, -2549733, 4374664, 2938164>>

CoefD == <<7785, 322467, 2445134, 3754409, 1000000>>

\* num / den in micro, for 0 <= num < 2^20 and 0 < den < 2^21
FracMicro(num, den) ==
    (((num * 1000) \div den) * 1000) + ((((num * 1000) % den) * 1000) \div den)

\* 1 + y2/3 + y2^2/5 + ... + y2^5/11 in micro, from the term 1/k down
RECURSIVE AtanhSeries(_, _, _)
AtanhSeries(y2, k, s) ==
    IF k < 1 THEN s ELSE AtanhSeries(y2, k - 2, MulMicro(s, y2) + (1000000 \div k))

\* ln((1 + y) / (1 - y)) in micro, 0 <= y <= 1/3 in micro
LnRatio(y) == 2 * MulMicro(y, AtanhSeries(MulMicro(y, y), 9, 1000000 \div 11))

\* -Math.log(p / 1000000) in micro, for 0 < p < 1000000 with leading bit e
NegLogAt(p, e) ==
    13815511 - ((e * 693147) + LnRatio(FracMicro(p - Pow2(e), p + Pow2(e))))

NegLogMicro(p) == NegLogAt(p, LeadBit(p))

\* num / den in milli, for den > 0 and den * 1000 < 2^31
RatioMilli(num, den) == ((num \div den) * 1000) + (((num % den) * 1000) \div den)

\* the quotient of the two polynomials in q = Math.sqrt(-2 * Math.log(p)), in milli
TailRatio(q) ==
    PolyMilli(CoefC, q, 2, CoefC[1]) \div (PolyMilli(CoefD, q, 2, CoefD[1]) \div 1000)

\* invNorm(p) for p < plow, in milli
InvNormTail(p) == TailRatio(Isqrt(2 * NegLogMicro(p)))

\* num * q for q in ppm of either sign
TimesQ(num, q) == IF q >= 0 THEN MulMicro(num, q) ELSE -MulMicro(num, -q)

\* the quotient of the central branch, for q = p - 0.5 (ppm) and r = q * q (micro)
CentralRatio(q, r) ==
    RatioMilli(TimesQ(PolyMicro(CoefA, r, 2, CoefA[1]), q), PolyMicro(CoefB, r, 2, CoefB[1]))

\* a variant of InvNormCentral that drops the terms in r of both polynomials
InvNormCentral_Linear(p) == CentralRatio(p - 500000, 0)

\* invNorm(p) for plow <= p <= phigh, in milli
InvNormCentral(p) ==
    CentralRatio(p - 500000, (((p - 500000) \div 100) * ((p - 500000) \div 100)) \div 100)

\* invNorm(p), p a finite number in ppm: [nan, z] with z in milli
invNorm(p) ==
    IF p <= 0 \/ p >= 1000000 THEN [nan |-> TRUE, z |-> 0]
    ELSE IF p < 24250 THEN [nan |-> FALSE, z |-> InvNormTail(p)]
    ELSE IF p > 975750 THEN [nan |-> FALSE, z |-> -InvNormTail(1000000 - p)]
    ELSE [nan |-> FALSE, z |-> InvNormCentral(p)]

\* the quotient and the remainder of a * b by c, from bit k of b down; q and r
\* are those of a * (the bits of b above k) by c.  0 <= a, 0 <= b, 0 < c < 2^29
RECURSIVE MulDivBits(_, _, _, _, _, _)
MulDivBits(a, b, c, k, q, r) ==
    IF k < 0 THEN <<q, r>>
    ELSE MulDivBits(a, b, c, k - 1,
            (2 * q) + (((b \div Pow2(k)) % 2) * (a \div c))
                + (((2 * r) + (((b \div Pow2(k)) % 2) * (a % c))) \div c),
            ((2 * r) + (((b \div Pow2(k)) % 2) * (a % c))) % c)

CeilOf(qr) == qr[1] + (IF qr[2] > 0 THEN 1 ELSE 0)

\* Math.ceil((a * b) / c)
CeilMulDiv(a, b, c) == CeilOf(MulDivBits(a, b, c, 30, 0, 0))

\* a variant of SampleSizeOf without the floor of 2
SampleSizeOf_NoFloor(sigma2, mdeAbs, zAlpha, zPower) ==
    IF ~zAlpha.nan /\ ~zPower.nan /\ mdeAbs > 0 /\ sigma2 > 0
    THEN [called |-> TRUE, nan |-> FALSE,
          n |-> CeilMulDiv(2 * (((zAlpha.z + zPower.z) * (zAlpha.z + zPower.z)) \div 1000),
                           sigma2, mdeAbs * mdeAbs)]
    ELSE [called |-> TRUE, nan |-> TRUE, n |-> 0]

\* a variant of SampleSizeOf with mdeAbs and sigma2 exchanged and no square
SampleSizeOf_Inverted(sigma2, mdeAbs, zAlpha, zPower) ==
    IF ~zAlpha.nan /\ ~zPower.nan /\ mdeAbs > 0 /\ sigma2 > 0
    THEN [called |-> TRUE, nan |-> FALSE,
          n |-> Max(2, CeilMulDiv(2 * (((zAlpha.z + zPower.z) * (zAlpha.z + zPower.z)) \div 1000),
                                  mdeAbs, sigma2))]
    ELSE [called |-> TRUE, nan |-> TRUE, n |-> 0]

\* a variant of SampleSizeOf that subtracts the power quantile
SampleSizeOf_Minus(sigma2, mdeAbs, zAlpha, zPower) ==
    IF ~zAlpha.nan /\ ~zPower.nan /\ mdeAbs > 0 /\ sigma2 > 0
    THEN [called |-> TRUE, nan |-> FALSE,
          n |-> Max(2, CeilMulDiv(2 * (((zAlpha.z - zPower.z) * (zAlpha.z - zPower.z)) \div 1000),
                                  sigma2, mdeAbs * mdeAbs))]
    ELSE [called |-> TRUE, nan |-> TRUE, n |-> 0]

\* a variant of SampleSizeOf that counts both arms
SampleSizeOf_BothArms(sigma2, mdeAbs, zAlpha, zPower) ==
    IF ~zAlpha.nan /\ ~zPower.nan /\ mdeAbs > 0 /\ sigma2 > 0
    THEN [called |-> TRUE, nan |-> FALSE,
          n |-> Max(2, CeilMulDiv(4 * (((zAlpha.z + zPower.z) * (zAlpha.z + zPower.z)) \div 1000),
                                  sigma2, mdeAbs * mdeAbs))]
    ELSE [called |-> TRUE, nan |-> TRUE, n |-> 0]

\* computeSampleSize from its if on: [called, nan, n]
SampleSizeOf(sigma2, mdeAbs, zAlpha, zPower) ==
    IF ~zAlpha.nan /\ ~zPower.nan /\ mdeAbs > 0 /\ sigma2 > 0
    THEN [called |-> TRUE, nan |-> FALSE,
          n |-> Max(2, CeilMulDiv(2 * (((zAlpha.z + zPower.z) * (zAlpha.z + zPower.z)) \div 1000),
                                  sigma2, mdeAbs * mdeAbs))]
    ELSE [called |-> TRUE, nan |-> TRUE, n |-> 0]

\* computeSampleSize({ sigma2, mdeAbs, alpha, power }), the arguments being
\* finite numbers: sigma2 and mdeAbs in milli, alpha (even) and power in ppm
computeSampleSize(sigma2, mdeAbs, alpha, power) ==
    SampleSizeOf(sigma2, mdeAbs, invNorm(1000000 - (alpha \div 2)), invNorm(power))

Sigma2Inputs == {-1000, 0, 157, 2625, 105000}

MdeAbsInputs == {-250, 0, 15, 250, 10000}

AlphaInputs == {-50000, 0, 12500, 50000, 2000000}

PowerInputs == {0, 1000, 200000, 800000, 990000, 1000000}

InitSizer ==
    /\ sargs \in [sigma2 : Sigma2Inputs, mdeAbs : MdeAbsInputs,
                  alpha : AlphaInputs, power : PowerInputs]
    /\ sret = [called |-> FALSE, nan |-> FALSE, n |-> 0]
    /\ AppIdle /\ RngIdle /\ CallsIdle /\ DrsIdle

\* the call computeSampleSize(sargs)
ComputeSampleSize ==
    /\ ~sret.called
    /\ sret' = computeSampleSize(sargs.sigma2, sargs.mdeAbs, sargs.alpha, sargs.power)
    /\ UNCHANGED sargs
    /\ UNCHANGED <<appVars, rngVars, callVars, drsVars>>

NextSizer == ComputeSampleSize

SpecSizer == InitSizer /\ [][NextSizer]_vars

(***************************************************************************)
(* The claims about the engine                                             *)
(***************************************************************************)
\* a boxMuller call, once made, keeps executing, and so does the engine
\* that draws from the stream
SpecRNGLive == SpecRNG /\ WF_vars(NextRNG)

\* C1: every engine operation terminates: every boxMuller call made inside
\* generateData and simulateAB, on any stream they create, completes after
\* finitely many RNG draws
C1_BoxMullerReturns == (bpc # "idle") ~> (bpc = "idle")

\* C2: the all-zero RNG state is never reached: every stream the engine
\* creates has a non-zero state at creation and after every xorshift step
C2_StateNeverZero == rs # ZeroWord

\* C3: every value rand() returns is >= 0 and strictly less than 1
C3_ValueBelowOne == rv # <<>> => LessW(rv, RandDenominator)

C10_SampleSizeDefined ==
    sret.called =>
        /\ sret.nan <=> \/ invNorm(1000000 - (sargs.alpha \div 2)).nan
                        \/ invNorm(sargs.power).nan
                        \/ sargs.mdeAbs <= 0
                        \/ sargs.sigma2 <= 0
        /\ ~sret.nan =>
              /\ sret.n \in Nat
              /\ sret.n >= 2
              /\ sret.n = Max(2, CeilMulDiv(
                    2 * (((invNorm(1000000 - (sargs.alpha \div 2)).z + invNorm(sargs.power).z)
                          * (invNorm(1000000 - (sargs.alpha \div 2)).z + invNorm(sargs.power).z))
                         \div 1000),
                    sargs.sigma2, sargs.mdeAbs * sargs.mdeAbs))

\* a call with valid quantiles and positive mdeAbs and sigma2 whose quotient is
\* below 2, and a call that is undefined for its sigma2 alone
C10_Witness ==
    /\ sret.called
    /\ \/ /\ ~sret.nan
          /\ sret.n = 2
          /\ sargs.sigma2 > 0 /\ sargs.mdeAbs > sargs.sigma2
       \/ /\ sret.nan
          /\ sargs.sigma2 <= 0 /\ sargs.mdeAbs > 0
          /\ sargs.alpha = 50000 /\ sargs.power = 800000

(***************************************************************************)
(* The claims about computeSampleSize as a function of one argument        *)
(***************************************************************************)
\* the call made had a defined result
Sized == sret.called /\ ~sret.nan

\* the n of the call made, with another mdeAbs
WithMde(m) == computeSampleSize(sargs.sigma2, m, sargs.alpha, sargs.power)

\* the n of the call made, with another power
WithPower(p) == computeSampleSize(sargs.sigma2, sargs.mdeAbs, sargs.alpha, p)

\* C11: for fixed sigma2, alpha and power for which computeSampleSize is
\* defined, and 0 < mde1 <= mde2, the n for mde2 is at most the n for mde1;
\* in particular doubling the MDE never increases n
C11_MdeMonotone ==
    Sized =>
        \A m2 \in MdeAbsInputs \cup {2 * sargs.mdeAbs} :
            m2 >= sargs.mdeAbs =>
                /\ ~WithMde(m2).nan
                /\ WithMde(m2).n <= sret.n

\* a defined call above the floor of 2 whose n falls when the MDE doubles
C11_Witness ==
    /\ Sized
    /\ sret.n > 2
    /\ WithMde(2 * sargs.mdeAbs).n < sret.n

\* C12 as stated: for fixed sigma2 > 0, MDE > 0 and alpha in (0, 1), and any
\* 0 < p1 <= p2 < 1, the n at power p2 is at least the n at power p1
C12_PowerMonotone ==
    (Sized /\ sargs.alpha > 0 /\ sargs.alpha < 1000000) =>
        \A p1 \in PowerInputs :
            (0 < p1 /\ p1 <= sargs.power) => WithPower(p1).n <= sret.n

\* C12: the same for the powers p1 whose quantile is not below -zAlpha, that
\* is zAlpha + zPower(p1) >= 0, which all powers >= 0.5 are
C12_PowerMonotoneAbove ==
    (Sized /\ sargs.alpha > 0 /\ sargs.alpha < 1000000) =>
        \A p1 \in PowerInputs :
            (/\ 0 < p1 /\ p1 <= sargs.power
             /\ invNorm(1000000 - (sargs.alpha \div 2)).z + invNorm(p1).z >= 0)
                => WithPower(p1).n <= sret.n

\* a defined call at power 0.99 whose n is above the n at power 0.8
C12_Witness ==
    /\ Sized
    /\ sargs.power = 990000
    /\ sargs.alpha = 50000
    /\ WithPower(800000).n < sret.n

\* the call of the worked example: sigma2 = 105, mdeAbs = 10, alpha = 0.05,
\* power = 0.8
WorkedExample ==
    /\ sret.called
    /\ sargs = [sigma2 |-> 105000, mdeAbs |-> 10000, alpha |-> 50000, power |-> 800000]

\* C20 as stated: the call of the worked example returns 34 per arm, within
\* rounding of the quantile approximations
C20_Returns34 == WorkedExample => (~sret.nan /\ sret.n \in 33..35)

\* C20: the call of the worked example returns
\* ceil(2 * (1.95996 + 0.84162)^2 * 105 / 100), which is 17 per arm
C20_Returns17 == WorkedExample => (~sret.nan /\ sret.n = 17)

\* the call of the worked example was made
C20_Witness == WorkedExample /\ ~sret.nan

(***************************************************************************)
(* deriveDataDrivenLift, called on a baseline series.  sargs holds the     *)
(* arguments, sret the mixed seed and the lift returned.                   *)
(***************************************************************************)
\* a daily record with dau users; the sums of Shares and Comments over a
\* series are what the series of LiftSeries differ in
DayOf(date, dau, shares, comments) ==
    [date |-> date, label |-> formatDateLabel(date),
     DAU |-> dau, WAU |-> 6 * dau, Sessions |-> 2 * dau,
     Logins |-> (8 * dau) \div 10, Signups |-> dau \div 50,
     VideoViews |-> (25 * dau) \div 10, Shares |-> shares,
     Comments |-> comments, Likes |-> (7 * dau) \div 10]

\* baseline series of two days
LiftSeries ==
    {<<DayOf(Today0 - 1, 1000, x[1], x[2]), DayOf(Today0, 1100, x[3], x[4])>> :
        x \in {150, 180} \X {180, 200} \X {170, 200} \X {170, 190}}

LiftSeeds == {7, 42, 85707}

InitLift ==
    /\ sargs \in [metricKey : Range(METRICS), rows : LiftSeries, seed : LiftSeeds]
    /\ sret = [called |-> FALSE, mixedSeed |-> ZeroWord, div |-> FALSE, lift |-> 0]
    /\ AppIdle /\ RngIdle /\ CallsIdle /\ DrsIdle

\* what deriveDataDrivenLift computes: its local mixedSeed and its return
LiftCall(mixedSeed, ret) ==
    [called |-> TRUE, mixedSeed |-> mixedSeed, div |-> ret.div, lift |-> ret.lift]

\* the call deriveDataDrivenLift(metricKey, data, seed)
DeriveDataDrivenLift ==
    /\ ~sret.called
    /\ sret' = LiftCall(LiftSeed(sargs.metricKey, sargs.rows, W(sargs.seed)),
                        deriveDataDrivenLift(sargs.metricKey, sargs.rows, W(sargs.seed)))
    /\ UNCHANGED sargs
    /\ UNCHANGED <<appVars, rngVars, callVars, drsVars>>

NextLift == DeriveDataDrivenLift

SpecLift == InitLift /\ [][NextLift]_vars

\* the sum of a metric over the series of the call
SeriesSum(key) == SumField(sargs.rows, key, 1, Len(sargs.rows))

\* C19: the seed of the lift stream depends on hashStr(key): for a fixed user
\* seed, two metrics with different key hashes and equal full-series sums get
\* different lift-stream seeds; the lift is 0.10 + 0.10 * Z clamped to [-0.5, 2.0]
C19_KeyedLiftSeed ==
    sret.called =>
        /\ \A k2 \in Range(METRICS) :
              (/\ hashStr(k2) # hashStr(sargs.metricKey)
               /\ SeriesSum(k2) = SeriesSum(sargs.metricKey))
                  => LiftSeed(k2, sargs.rows, W(sargs.seed)) # sret.mixedSeed
        /\ ~sret.div => (sret.lift >= -500 /\ sret.lift <= 2000)

(***************************************************************************)
(* stdNormCDF, twoTailedP and computeStats.  A JavaScript number is        *)
(* [kind, v]: a finite number v, Infinity, -Infinity or NaN.  Means and    *)
(* standard errors are in milli, variances over n in micro, probabilities  *)
(* in ppm.                                                                 *)
(***************************************************************************)
Num(v) == [kind |-> "num", v |-> v]

NaN == [kind |-> "nan", v |-> 0]

Infinity == [kind |-> "inf", v |-> 0]

NegInfinity == [kind |-> "-inf", v |-> 0]

\* const zCritical = 1.96, in milli
zCritical == 1960

Abs(x) == IF x >= 0 THEN x ELSE -x

\* Math.exp(-k) for k = 0 .. 14, in micro; it is below 0.0000005 from k = 15 on
ExpNegTable ==
    <<1000000, 367879, 135335, 49787, 18316, 6738, 2479, 912, 335, 123, 45, 17, 6, 2, 1>>

\* 1 - f/1 * (1 - f/2 * (... (1 - f/k * s))), f in micro: the series of Math.exp(-f)
RECURSIVE ExpSeries(_, _, _)
ExpSeries(f, k, s) ==
    IF k < 1 THEN s ELSE ExpSeries(f, k - 1, 1000000 - (MulMicro(f, s) \div k))

\* Math.exp(-y), y >= 0 in milli, in micro
ExpNeg(y) ==
    IF y \div 1000 >= Len(ExpNegTable) THEN 0
    ELSE MulMicro(ExpNegTable[(y \div 1000) + 1], ExpSeries((y % 1000) * 1000, 8, 1000000))

\* 0.319381530, -0.356563782, 1.781477937, -1.821255978, 1.330274429, in micro
CoefCdf == <<319382, -356564, 1781478, -1821256, 1330274>>

\* d * t * (1.330274429 + t * (-1.821255978 + ...)), t and d in micro
CdfTail(t, d) == MulMicro(d, MulMicro(t, PolyMicro(CoefCdf, t, 2, CoefCdf[1])))

\* stdNormCDF(x) for x >= 0 in milli, in ppm; beyond x = 8 the tail is below 1e-15
CdfAbs(ax) ==
    IF ax >= 8000 THEN 1000000
    ELSE 1000000 - CdfTail(FracMicro(1000, 1000 + ((2316 * ax) \div 10000)),
                           MulMicro(398942, ExpNeg((ax * ax) \div 2000)))

\* stdNormCDF(x), x a finite number in milli, in ppm
stdNormCDF(x) == IF x >= 0 THEN CdfAbs(x) ELSE 1000000 - CdfAbs(-x)

\* twoTailedP(z) = 2 * (1 - stdNormCDF(Math.abs(z)))
twoTailedP(z) ==
    IF z.kind = "nan" THEN NaN
    ELSE IF z.kind = "num" THEN Num(2 * (1000000 - stdNormCDF(Abs(z.v))))
    ELSE Num(0)

\* var / n, var a finite number in milli and n an integer >= 0, in micro
VarOver(var, n) ==
    IF n > 0 THEN Num((var * 1000) \div n)
    ELSE IF var > 0 THEN Infinity
    ELSE IF var < 0 THEN NegInfinity
    ELSE NaN

\* a + b
SumOf(a, b) ==
    IF a.kind = "nan" \/ b.kind = "nan" THEN NaN
    ELSE IF a.kind = "num" /\ b.kind = "num" THEN Num(a.v + b.v)
    ELSE IF a.kind = "num" THEN b
    ELSE IF b.kind = "num" \/ b.kind = a.kind THEN a
    ELSE NaN

\* Math.sqrt(x), x in micro, in milli
SqrtOf(x) ==
    IF x.kind = "inf" THEN Infinity
    ELSE IF x.kind = "num" /\ x.v >= 0 THEN Num(Isqrt(x.v))
    ELSE NaN

\* num / den for two finite numbers in the same unit, in milli
Quotient(num, den) ==
    IF den = 0
    THEN (IF num = 0 THEN NaN ELSE IF num > 0 THEN Infinity ELSE NegInfinity)
    ELSE IF (num >= 0) = (den > 0) THEN Num((Abs(num) * 1000) \div Abs(den))
    ELSE Num(-((Abs(num) * 1000) \div Abs(den)))

\* diff / se, diff a finite number
OverSe(diff, se) ==
    IF se.kind = "nan" THEN NaN
    ELSE IF se.kind = "num" THEN Quotient(diff, se.v)
    ELSE Num(0)

\* diff + sign * zCritical * se
CiBound(diff, se, sign) ==
    IF se.kind = "nan" THEN NaN
    ELSE IF se.kind = "num" THEN Num(diff + (sign * ((zCritical * se.v) \div 1000)))
    ELSE IF sign > 0 THEN Infinity
    ELSE NegInfinity

\* computeStats from z on
StatsZ(muC, muT, diff, se, z) ==
    [muC |-> Num(muC), muT |-> Num(muT), diff |-> Num(diff), z |-> z,
     p |-> twoTailedP(z), ciLow |-> CiBound(diff, se, -1),
     ciHigh |-> CiBound(diff, se, 1), lift |-> Quotient(diff, muC)]

\* computeStats from se on
StatsSe(muC, muT, diff, se) == StatsZ(muC, muT, diff, se, OverSe(diff, se))

\* computeStats from varC on; vb is varBoost in 1/100
StatsMuT(muC, muT, nC, nT, vb) ==
    StatsSe(muC, muT, muT - muC,
            SqrtOf(SumOf(VarOver((muT * (100 + vb)) \div 100, nT),
                         VarOver((muC * (100 + vb)) \div 100, nC))))

\* computeStats({ muC, liftPct, nC, nT, varBoost }): muC in milli, liftPct in 1/1000
computeStats(muC, liftPct, nC, nT, vb) ==
    StatsMuT(muC, (muC * (1000 + liftPct)) \div 1000, nC, nT, vb)

\* liftPct = (muC > 0) ? (muT / muC - 1) : 0, in 1/1000
LiftPctOf(muC, muT) == IF muC > 0 THEN ((muT * 1000) \div muC) - 1000 ELSE 0

\* agg?.NtotC || 1
OrOne(n) == IF n = 0 THEN 1 ELSE n

\* the statistics of one row of the results table, agg being aggregates[key]
StatsRowOf(agg) ==
    computeStats(agg.muC, LiftPctOf(agg.muC, agg.muT), OrOne(agg.NtotC), OrOne(agg.NtotT),
                 VarBoost)

MuInputs == {0, 150, 2500}

MuTInputs == {0, 140, 165, 2500, 2800}

ArmInputs == {0, 1, 400, 7000}

InitStats ==
    /\ sargs \in [muC : MuInputs, muT : MuTInputs, NtotC : ArmInputs, NtotT : ArmInputs]
    /\ sret = [called |-> "no", s |-> computeStats(0, 0, 0, 0, VarBoost)]
    /\ AppIdle /\ RngIdle /\ CallsIdle /\ DrsIdle

\* computeStats called with the arm sizes as they are
ComputeStats ==
    /\ sret.called = "no"
    /\ sret' = [called |-> "computeStats",
                s |-> computeStats(sargs.muC, LiftPctOf(sargs.muC, sargs.muT),
                                   sargs.NtotC, sargs.NtotT, VarBoost)]
    /\ UNCHANGED sargs
    /\ UNCHANGED <<appVars, rngVars, callVars, drsVars>>

\* the row of the results table is rendered for the aggregate sargs
StatsRow ==
    /\ sret.called = "no"
    /\ sret' = [called |-> "row", s |-> StatsRowOf(sargs)]
    /\ UNCHANGED sargs
    /\ UNCHANGED <<appVars, rngVars, callVars, drsVars>>

NextStats == ComputeStats \/ StatsRow

SpecStats == InitStats /\ [][NextStats]_vars

\* a result that reports no statistic: z, p and the interval are not numbers
Undefined(s) ==
    /\ s.z.kind # "num"
    /\ s.p.kind # "num"
    /\ s.ciLow.kind # "num"
    /\ s.ciHigh.kind # "num"

\* C17: computeStats given nC = 0 or nT = 0 returns an undefined result, and
\* the statistics of a row whose aggregate NtotC or NtotT is 0 are undefined
\* rather than computed with a substituted arm size
C17_ArmSizeGuarded ==
    (sret.called # "no" /\ (sargs.NtotC = 0 \/ sargs.NtotT = 0)) => Undefined(sret.s)

(***************************************************************************)
(* DecisionRuleSizer: its props, its state, the rows and the recommended n *)
(* of each render, and the Apply as split button, which calls the          *)
(* playground's applyToSplit.  alpha and power are in ppm, mdePct in       *)
(* 1/1000, mu in milli.                                                    *)
(***************************************************************************)
\* candidateKeys = selectedSuccessKeys.length ? selectedSuccessKeys : SUCCESS_KEYS
candidateKeys(selectedSuccessKeys) ==
    IF Len(selectedSuccessKeys) > 0 THEN selectedSuccessKeys ELSE SUCCESS_KEYS

\* a variant of AlphaAdj that multiplies alpha by the number of metrics
AlphaAdj_Times(rule, alpha, k) == IF rule = "PRIMARY" THEN alpha ELSE alpha * Max(1, k)

\* alphaAdj = (rule === "PRIMARY") ? alpha : (alpha / kCount), kCount = Math.max(1, k)
AlphaAdj(rule, alpha, k) == IF rule = "PRIMARY" THEN alpha ELSE alpha \div Max(1, k)

\* one element of rows: sigma2 = mu * (1 + 0.05), mdeAbs = mu * Math.max(0, mdePct)
RowOf(k, mu, mdePct, alphaAdj, power) ==
    [key |-> k, mu |-> mu, alphaAdj |-> alphaAdj,
     n |-> computeSampleSize((mu * 105) \div 100, (mu * Max(0, mdePct)) \div 1000,
                             alphaAdj, power)]

\* rows = candidateKeys.map(k => ...)
RowsOf(rows, keys, rule, alpha, power, mdePct) ==
    [i \in 1..Len(keys) |->
        RowOf(keys[i], basePerUser(keys[i], rows), mdePct,
              AlphaAdj(rule, alpha, Len(keys)), power)]

\* rows.find(r => r.key === primary) || rows[0]
PrimaryRow(rs0, primary) ==
    IF \E i \in DOMAIN rs0 : rs0[i].key = primary
    THEN rs0[CHOOSE i \in DOMAIN rs0 :
                /\ rs0[i].key = primary
                /\ \A j \in DOMAIN rs0 : rs0[j].key = primary => i <= j]
    ELSE rs0[1]

\* r.n || 0
OrZero(n) == IF n.nan THEN 0 ELSE n.n

\* rows.reduce((m, r) => Math.max(m, r.n || 0), 0), from row i on
RECURSIVE ReduceMax(_, _, _)
ReduceMax(rs0, i, m) ==
    IF i > Len(rs0) THEN m ELSE ReduceMax(rs0, i + 1, Max(m, OrZero(rs0[i].n)))

\* a variant of ReduceMin that never restarts from a row
ReduceMin_NoRestart(rs0, i, m) ==
    IF Len(rs0) = 0 THEN m
    ELSE OrZero(rs0[CHOOSE j \in DOMAIN rs0 :
                        \A l \in DOMAIN rs0 : OrZero(rs0[j].n) <= OrZero(rs0[l].n)].n)

\* rows.reduce((m, r) => (m === 0 ? r.n || 0 : Math.min(m, r.n || 0)), 0), from row i on
RECURSIVE ReduceMin(_, _, _)
ReduceMin(rs0, i, m) ==
    IF i > Len(rs0) THEN m
    ELSE ReduceMin(rs0, i + 1,
                   IF m = 0 THEN OrZero(rs0[i].n) ELSE Min(m, OrZero(rs0[i].n)))

\* a variant of RecommendedOf in which CO_PRIMARY recommends the minimum
RecommendedOf_CoMin(rule, rs0, primary) ==
    IF rule = "PRIMARY"
    THEN [nan |-> PrimaryRow(rs0, primary).n.nan, n |-> PrimaryRow(rs0, primary).n.n]
    ELSE [nan |-> FALSE, n |-> ReduceMin(rs0, 1, 0)]

\* recommendedN: [nan, n]
RecommendedOf(rule, rs0, primary) ==
    IF rule = "PRIMARY"
    THEN [nan |-> PrimaryRow(rs0, primary).n.nan, n |-> PrimaryRow(rs0, primary).n.n]
    ELSE IF rule = "CO_PRIMARY" THEN [nan |-> FALSE, n |-> ReduceMax(rs0, 1, 0)]
    ELSE [nan |-> FALSE, n |-> ReduceMin(rs0, 1, 0)]

\* the rows of a render with props p and state st
RenderRows(p, st) ==
    RowsOf(p.data, candidateKeys(p.selectedSuccessKeys), st.rule, st.alpha, st.power,
           st.mdePct)

\* the recommended n of a render with props p and state st
RenderN(p, st) == RecommendedOf(st.rule, RenderRows(p, st), st.primary)

\* baseline series passed as data: two days, two days without a comment, no day
RuleSeries ==
    {<<DayOf(Today0 - 1, 1000, 150, 180), DayOf(Today0, 1100, 200, 170)>>,
     <<DayOf(Today0 - 1, 1000, 150, 0), DayOf(Today0, 1100, 200, 0)>>,
     <<>>}

KeySelections == {<<>>, <<"VideoViews", "Likes">>}

\* sumDAUWindow of a test window that spans the whole series
WindowSum(rows) == SumField(rows, "DAU", 1, Len(rows))

RuleInputs == {"PRIMARY", "CO_PRIMARY", "ANY_OF"}

MdePctInputs == {0, 250}

RulePowerInputs == {0, 1000}

RuleAlphaInputs == {0, 200000}

InitRule ==
    /\ \E d \in RuleSeries, sel \in KeySelections :
          props = [data |-> d, selectedSuccessKeys |-> sel, sumDAUWindow |-> WindowSum(d)]
    /\ sizer = [rule |-> "PRIMARY", primary |-> candidateKeys(props.selectedSuccessKeys)[1],
                alpha |-> 50000, power |-> 800000, mdePct |-> 100]
    /\ recommendedN = RenderN(props, sizer)
    /\ days = 0 /\ seed = 0 /\ splitC = 5000 /\ splitT = 5000 /\ testLen = 0
    /\ enforceNoDecline = FALSE /\ today = 0 /\ edits = 0 /\ render = "off"
    /\ gen = <<>> /\ data = <<>> /\ sm = <<>> /\ sim = <<>> /\ spin = 0
    /\ RngIdle /\ CallsIdle /\ SizerIdle

\* a state setter of the sizer, and the render it causes
SetSizer(st) ==
    /\ sizer' = st
    /\ recommendedN' = RenderN(props, st)
    /\ UNCHANGED props
    /\ UNCHANGED <<appVars, rngVars, callVars, sizerVars>>

\* onChange of a rule radio button: setRule(opt.id)
SetRule(r) == SetSizer([sizer EXCEPT !.rule = r])

\* onChange of the primary metric select: setPrimary(e.target.value)
SetPrimary(k) == SetSizer([sizer EXCEPT !.primary = k])

\* onChange of the MDE field: setMdePct(Number(e.target.value)||0)
SetMdePct(v) == SetSizer([sizer EXCEPT !.mdePct = v])

\* onChange of the Power field: setPower(Number(e.target.value)||0.8)
SetPower(v) == SetSizer([sizer EXCEPT !.power = IF v = 0 THEN 800000 ELSE v])

\* onChange of the Alpha field: setAlpha(Number(e.target.value)||0.05)
SetAlpha(v) == SetSizer([sizer EXCEPT !.alpha = IF v = 0 THEN 50000 ELSE v])

\* a variant of SplitsApplied that sets the clamped fraction without setSplitPair
SplitsApplied_Uncapped(n, sum, c, t) ==
    IF ~n.nan /\ sum > 0 THEN <<ApplyFrac(n.n, sum), ApplyFrac(n.n, sum)>> ELSE <<c, t>>

\* applyToSplit(Number(recommendedN)): the splits it leaves, c and t being the
\* splits before
SplitsApplied(n, sum, c, t) ==
    IF ~n.nan /\ sum > 0
    THEN setSplitPair(ApplyFrac(n.n, sum), ApplyFrac(n.n, sum))
    ELSE <<c, t>>

\* onClick of Apply as split: applyToSplit(Number(recommendedN))
ApplyAsSplit ==
    /\ splitC' = SplitsApplied(recommendedN, props.sumDAUWindow, splitC, splitT)[1]
    /\ splitT' = SplitsApplied(recommendedN, props.sumDAUWindow, splitC, splitT)[2]
    /\ UNCHANGED <<days, seed, testLen, enforceNoDecline, today, edits, render, gen,
                   data, sm, sim, spin>>
    /\ UNCHANGED <<rngVars, callVars, sizerVars, drsVars>>

NextRule ==
    \/ \E r \in RuleInputs : SetRule(r)
    \/ \E k \in Range(candidateKeys(props.selectedSuccessKeys)) : SetPrimary(k)
    \/ \E v \in MdePctInputs : SetMdePct(v)
    \/ \E v \in RulePowerInputs : SetPower(v)
    \/ \E v \in RuleAlphaInputs : SetAlpha(v)
    \/ ApplyAsSplit

SpecRule == InitRule /\ [][NextRule]_vars

(***************************************************************************)
(* Claims about DecisionRuleSizer.  The per-metric n is recomputed here    *)
(* from the props and the state, at an alpha given explicitly.             *)
(***************************************************************************)
RuleKeys == candidateKeys(props.selectedSuccessKeys)

\* the n of metric k at alphaUsed, with the sizer's power and MDE%
MetricN(k, alphaUsed) ==
    computeSampleSize((basePerUser(k, props.data) * 105) \div 100,
                      (basePerUser(k, props.data) * Max(0, sizer.mdePct)) \div 1000,
                      alphaUsed, sizer.power)

\* the n of metric k at alpha / k
BonferroniN(k) == MetricN(k, sizer.alpha \div Len(RuleKeys))

\* the n of metric k at the uncorrected alpha
PrimaryN(k) == MetricN(k, sizer.alpha)

\* the candidate metrics whose n is defined
Defined == {k \in Range(RuleKeys) : ~BonferroniN(k).nan}

\* the recommended n of the same props and state under rule r
RuleN(r) == RenderN(props, [sizer EXCEPT !.rule = r])

\* C13: under rule CO_PRIMARY the recommended n is the maximum over the
\* candidate metrics of the per-metric n computed at alpha / k, k the number
\* of candidate metrics (the maximum of the defined per-metric n; the case in
\* which none is defined is the subject of C16)
C13_CoPrimaryMax ==
    (sizer.rule = "CO_PRIMARY" /\ Defined # {}) =>
        /\ ~recommendedN.nan
        /\ \E k \in Defined : recommendedN.n = BonferroniN(k).n
        /\ \A k \in Defined : recommendedN.n >= BonferroniN(k).n

\* CO_PRIMARY over metrics with different n, where the correction changes n
C13_Witness ==
    /\ sizer.rule = "CO_PRIMARY"
    /\ \E k1 \in Defined, k2 \in Defined :
          /\ BonferroniN(k1).n < BonferroniN(k2).n
          /\ recommendedN.n = BonferroniN(k2).n
          /\ PrimaryN(k2).n < BonferroniN(k2).n

AllDefined == Defined = Range(RuleKeys)

\* C15 as stated: for the same candidate set, alpha, power and MDE%, the
\* CO_PRIMARY n is >= the ANY_OF n, and the ANY_OF n is >= the PRIMARY n
\* (at the uncorrected alpha) of any single candidate metric
C15_RuleOrdering ==
    AllDefined =>
        /\ RuleN("CO_PRIMARY").n >= RuleN("ANY_OF").n
        /\ \A k \in Range(RuleKeys) : RuleN("ANY_OF").n >= PrimaryN(k).n

\* C15 amended: the CO_PRIMARY n is >= the ANY_OF n; and when every metric
\* has a defined n and zAlpha + zPower >= 0 at the uncorrected alpha, each
\* metric's n at alpha / k is >= its own PRIMARY n, so the CO_PRIMARY n is >=
\* every metric's PRIMARY n and the ANY_OF n is >= the smallest PRIMARY n
C15_RuleOrderingOwn ==
    /\ RuleN("CO_PRIMARY").n >= RuleN("ANY_OF").n
    /\ (/\ AllDefined
        /\ invNorm(1000000 - (sizer.alpha \div 2)).z + invNorm(sizer.power).z >= 0) =>
          /\ \A k \in Range(RuleKeys) :
                /\ BonferroniN(k).n >= PrimaryN(k).n
                /\ RuleN("CO_PRIMARY").n >= PrimaryN(k).n
          /\ \E k \in Range(RuleKeys) : RuleN("ANY_OF").n >= PrimaryN(k).n

\* several defined metrics, the ANY_OF n below one metric's PRIMARY n and
\* below the CO_PRIMARY n
C15_Witness ==
    /\ AllDefined
    /\ Len(RuleKeys) > 1
    /\ invNorm(1000000 - (sizer.alpha \div 2)).z + invNorm(sizer.power).z >= 0
    /\ RuleN("CO_PRIMARY").n > RuleN("ANY_OF").n
    /\ \E k \in Range(RuleKeys) : RuleN("ANY_OF").n < PrimaryN(k).n
    /\ \E k \in Range(RuleKeys) : BonferroniN(k).n > PrimaryN(k).n

\* C16: whenever the per-metric n is undefined for the candidate metrics, the
\* recommended n is no recommendation (non-finite), never 0, under every rule
C16_UndefinedNotZero == (Defined = {}) => recommendedN.nan

\* the clamped fraction n / sumDAUWindow of the current recommendation
RuleFrac == ApplyFrac(recommendedN.n, props.sumDAUWindow)

\* C18 as stated: after Apply as split with a finite n and a positive
\* sumDAUWindow, splitC = splitT = clamp(n / sumDAUWindow, 0, 0.98); with a
\* non-finite n or sumDAUWindow = 0 the splits are unchanged
C18_ApplySetsFraction ==
    [][ApplyAsSplit =>
          IF ~recommendedN.nan /\ props.sumDAUWindow > 0
          THEN splitC' = RuleFrac /\ splitT' = RuleFrac
          ELSE splitC' = splitC /\ splitT' = splitT]_vars

\* C18 amended: after Apply as split with a finite n and a positive
\* sumDAUWindow, splitC = splitT = min(clamp(n / sumDAUWindow, 0, 0.98), 0.49);
\* with a non-finite n or sumDAUWindow = 0 the splits are unchanged
C18_ApplySetsCappedFraction ==
    [][ApplyAsSplit =>
          IF ~recommendedN.nan /\ props.sumDAUWindow > 0
          THEN splitC' = Min(RuleFrac, 4900) /\ splitT' = Min(RuleFrac, 4900)
          ELSE splitC' = splitC /\ splitT' = splitT]_vars

\* the splits after an Apply whose fraction exceeded 0.49
C18_Witness ==
    /\ ~recommendedN.nan
    /\ props.sumDAUWindow > 0
    /\ RuleFrac > 4900
    /\ splitC = 4900
    /\ splitT = 4900

(***************************************************************************)
(* invNorm called on its own, as the sanity tests call it.  sargs holds    *)
(* the argument p (ppm), sret the returned quantile (milli).               *)
(***************************************************************************)
QuantileInputs == {k * 12500 : k \in 0..80}

InitQuantile ==
    /\ sargs \in [p : QuantileInputs]
    /\ sret = [called |-> FALSE, nan |-> FALSE, z |-> 0]
    /\ AppIdle /\ RngIdle /\ CallsIdle /\ DrsIdle

\* const z = invNorm(p)
InvNorm ==
    /\ ~sret.called
    /\ sret' = [called |-> TRUE, nan |-> invNorm(sargs.p).nan, z |-> invNorm(sargs.p).z]
    /\ UNCHANGED sargs
    /\ UNCHANGED <<appVars, rngVars, callVars, drsVars>>

NextQuantile == InvNorm

SpecQuantile == InitQuantile /\ [][NextQuantile]_vars

\* C21: invNorm(0.975) differs from 1.95996 by less than 0.02 in absolute
\* value, and 0.975 lies in the central regime, plow <= 0.975 <= phigh =
\* 1 - 0.02425 (z in milli is compared in 1/100000)
C21_QuantileRegression ==
    (sret.called /\ sargs.p = 975000) =>
        /\ ~sret.nan
        /\ Abs((100 * sret.z) - 195996) < 2000
        /\ 24250 <= sargs.p /\ sargs.p <= 1000000 - 24250
        /\ sret.z = InvNormCentral(sargs.p)

\* the call invNorm(0.975) has returned
C21_Witness == sret.called /\ sargs.p = 975000 /\ ~sret.nan /\ sret.z > 0

(***************************************************************************)
(* Claims about the Days field of the playground.                          *)
(***************************************************************************)
\* C22: after any sequence of day-count and test-duration edits, the
\* test-window length handed to simulateAB is >= 1 and <= the length of the
\* current baseline series
C22_WindowWithinSeries ==
    (render \in {"simulateAB", "ready"}) =>
        /\ PassedTestLen(testLen, data) >= 1
        /\ PassedTestLen(testLen, data) <= Len(data)

\* C23: the baseline series is never empty: the stored day count is >= 1,
\* generateData returns at least one record, and the per-user base mean of
\* VideoViews over it is positive
C23_BaselineNonEmpty ==
    /\ days >= 1
    /\ (render \in {"simulateAB", "ready"}) =>
          /\ Len(data) >= 1
          /\ basePerUser("VideoViews", data) > 0

====
